---- MODULE Spec2Model ----
(***************************************************************************)
(* Model of sungrow_monitor.py: the loop of main() and one call of         *)
(* receive_and_publish() per iteration.  A Python str is a sequence of     *)
(* one-character strings; a Python value is a record [t, s, n] where t is  *)
(* its type ("str", "int" or "float"), s the characters of a str (or the   *)
(* repr of a float) and n the number of an int.                            *)
(***************************************************************************)
EXTENDS Integers, Sequences, FiniteSets, TLC

(* ------------------------------ bounds ------------------------------ *)
MaxIter == 2          \* iterations of the loop in main that are explored
MaxReadings == 2      \* readings returned by one get_data call

(* --------------------------- Python strings -------------------------- *)
Digits == {"0", "1", "2", "3", "4", "5", "6", "7", "8", "9"}
Whitespace == {" ", "\t", "\n", "\r"}

StrV(chars) == [t |-> "str", s |-> chars, n |-> 0]
IntV(k) == [t |-> "int", s |-> <<>>, n |-> k]
FloatV(repr) == [t |-> "float", s |-> repr, n |-> 0]

\* The characters of a Python str as one TLA+ string.
RECURSIVE Str(_)
Str(s) == IF s = <<>> THEN "" ELSE Head(s) \o Str(Tail(s))

\* str.replace(old, new) for a one-character old.
RECURSIVE Replace(_, _, _)
Replace(s, old, new) ==
    IF s = <<>> THEN <<>>
    ELSE (IF Head(s) = old THEN new ELSE <<Head(s)>>) \o Replace(Tail(s), old, new)

\* str.replace(old, "", 1): only the first occurrence is removed.
RECURSIVE ReplaceFirst(_, _)
ReplaceFirst(s, old) ==
    IF s = <<>> THEN <<>>
    ELSE IF Head(s) = old THEN Tail(s)
    ELSE <<Head(s)>> \o ReplaceFirst(Tail(s), old)

RECURSIVE LStrip(_)
LStrip(s) == IF s # <<>> /\ Head(s) \in Whitespace THEN LStrip(Tail(s)) ELSE s

RECURSIVE RStrip(_)
RStrip(s) ==
    IF s # <<>> /\ s[Len(s)] \in Whitespace THEN RStrip(SubSeq(s, 1, Len(s) - 1)) ELSE s

\* str.strip()
Strip(s) == RStrip(LStrip(s))

\* str.isdigit(): false for the empty string.
IsDigit(s) == s # <<>> /\ \A i \in 1..Len(s) : s[i] \in Digits

DigitChars == <<"0", "1", "2", "3", "4", "5", "6", "7", "8", "9">>

\* str(n) for an int.
RECURSIVE NatToChars(_)
NatToChars(k) ==
    IF k < 10 THEN <<DigitChars[k + 1]>>
    ELSE NatToChars(k \div 10) \o NatToChars(k % 10)

IntToChars(k) == IF k < 0 THEN <<"-">> \o NatToChars(0 - k) ELSE NatToChars(k)

\* str(value) / f"{value}"
PyStr(v) == IF v.t = "int" THEN IntToChars(v.n) ELSE v.s

(* --------------------------- configuration --------------------------- *)
K_sensorID == <<"s", "e", "n", "s", "o", "r", "I", "D">>
K_timecollected == <<"t", "i", "m", "e", "c", "o", "l", "l", "e", "c", "t", "e", "d">>
Sentinel == StrV(<<"-", "-">>)

Id_rpizero == <<"r", "p", "i", "z", "e", "r", "o", ".", "h", "o", "m", "e", ".", "a", "r", "p", "a">>
Id_node1 == <<"n", "o", "d", "e", "1">>
\* SENSOR_ID is an edited-in-place setting: the shipped value and another one.
SensorIds == {Id_rpizero, Id_node1}

\* Values int(time.time()) can return.
Times == {1700000000, 1700000005}

(* ------------------------------ readings ----------------------------- *)
L_ActivePower == <<"A", "c", "t", "i", "v", "e", " ", "P", "o", "w", "e", "r", " ", "(", "W", ")">>
L_Status == <<"S", "t", "a", "t", "u", "s">>
L_A_sp_B == <<"A", " ", "B">>
L_A_us_B == <<"A", "_", "B">>
Labels == {L_ActivePower, L_Status, L_A_sp_B, L_A_us_B, K_sensorID}

V_1500f == FloatV(<<"1", "5", "0", "0", ".", "0">>)
V_1234f == FloatV(<<"1", "2", "3", ".", "4">>)
V_1234s == StrV(<<"1", "2", "3", ".", "4">>)
V_Running == StrV(<<"R", "u", "n", "n", "i", "n", "g">>)
Values == {V_1500f, V_1234f, V_1234s, V_Running, Sentinel}

Reading(value, desc) == [value |-> value, desc |-> desc]
Readings == {Reading(v, d) : v \in Values, d \in Labels}

\* data.values() of a get_data result: the items in insertion order.
ReadingLists == UNION {[1..k -> Readings] : k \in 0..MaxReadings}

(* ---------------------------- payload dict ---------------------------- *)
\* payload[key] = value on an insertion-ordered dict.
DictSet(p, key, value) ==
    IF \E i \in 1..Len(p) : p[i].key = key
    THEN [i \in 1..Len(p) |-> IF p[i].key = key THEN [key |-> key, value |-> value] ELSE p[i]]
    ELSE Append(p, [key |-> key, value |-> value])

DictHas(p, key) == \E i \in 1..Len(p) : p[i].key = key
DictGet(p, key) == p[CHOOSE i \in 1..Len(p) : p[i].key = key].value

\* The loop without the substitution of lines 73-74.
AddItem_NoSubstitution(p, item) == DictSet(p, item.desc, item.value)

\* Lines 70-75: one pass of the for loop.
AddItem(p, item) ==
    DictSet(p, item.desc, IF item.value = Sentinel THEN IntV(0) ELSE item.value)

RECURSIVE AddItems(_, _)
AddItems(p, items) ==
    IF items = <<>> THEN p ELSE AddItems(AddItem(p, Head(items)), Tail(items))

\* Lines 67-75.
BuildPayload(items, id, now) ==
    AddItems(DictSet(DictSet(<<>>, K_sensorID, StrV(id)), K_timecollected, IntV(now)), items)

(* ----------------------------- serializer ----------------------------- *)
\* The same calls with strip() applied first instead of last.
Sanitize_StripFirst(key) ==
    Replace(Replace(Replace(Strip(key), "(", <<>>), ")", <<>>), " ", <<"_">>)

\* key.replace("(", "").replace(")", "").replace(" ", "_").strip()
Sanitize(key) == Strip(Replace(Replace(Replace(key, "(", <<>>), ")", <<>>), " ", <<"_">>))

\* The condition of line 79 calls value.replace, which a float does not have.
EntryRaises(v) == v.t # "int" /\ v.t # "str"

\* The test with every decimal point removed, not only the first.
Quoted_AllPoints(v) == v.t # "int" /\ ~IsDigit(Replace(v.s, ".", <<>>))

\* not isinstance(value, int) and not value.replace(".", "", 1).isdigit()
Quoted(v) == v.t # "int" /\ ~IsDigit(ReplaceFirst(v.s, "."))

\* The text of one entry (line 79 or line 80).
EntryText(e) ==
    <<"\"">> \o Sanitize(e.key) \o <<"\"", ":", " ">> \o
    (IF Quoted(e.value) THEN <<"\"">> \o Strip(PyStr(e.value)) \o <<"\"">>
     ELSE PyStr(e.value))

RECURSIVE Join(_)
Join(texts) ==
    IF texts = <<>> THEN <<>>
    ELSE IF Len(texts) = 1 THEN texts[1]
    ELSE texts[1] \o <<",", " ">> \o Join(Tail(texts))

SerializeRaises(p) == \E i \in 1..Len(p) : EntryRaises(p[i].value)

\* Lines 78-82.
Serialize(p) == <<"{">> \o Join([i \in 1..Len(p) |-> EntryText(p[i])]) \o <<"}">>

\* The field names of the record Serialize(p) writes, in order.
FieldNames(p) == [i \in 1..Len(p) |-> Sanitize(p[i].key)]

(* ------------------------------- state -------------------------------- *)
VARIABLES
    sensorId,      \* SENSOR_ID
    pc,            \* the statement main / receive_and_publish is at
    data,          \* data.values() of this cycle
    stamp,         \* int(time.time()) of this cycle, 0 before it is taken
    payload,       \* the payload dict of this cycle
    payload_str,   \* the serialized record of this cycle
    published,     \* the strings handed to a publish call that succeeded, this cycle
    steps,         \* the steps begun in this cycle, in order
    failed,        \* the step that raised in this cycle, "none" if none did
    open_conns,    \* MQTT connections opened and not disconnected
    cycles,        \* calls of receive_and_publish so far
    returned,      \* calls of receive_and_publish that returned
    sleeps,        \* time.sleep calls that returned
    notifies,      \* notifier.notify calls
    publishCalls,  \* mqtt_client.publish calls
    gdFailAt,      \* the cycles in which get_data raised
    otherFailed    \* some collaborator call other than get_data raised

cycleVars == <<data, stamp, payload, payload_str, published, steps, failed>>
histVars == <<cycles, returned, sleeps, notifies, publishCalls, gdFailAt, otherFailed>>
vars == <<sensorId, pc, cycleVars, open_conns, histVars>>

\* The calls of collaborators that have not returned while pc names them.
PollingCalls == {"get_data", "connect", "publish"}

Init ==
    /\ sensorId \in SensorIds
    /\ pc = "receive_and_publish"
    /\ data = <<>>
    /\ stamp = 0
    /\ payload = <<>>
    /\ payload_str = <<>>
    /\ published = <<>>
    /\ steps = <<>>
    /\ failed = "none"
    /\ open_conns = 0
    /\ cycles = 0
    /\ returned = 0
    /\ sleeps = 0
    /\ notifies = 0
    /\ publishCalls = 0
    /\ gdFailAt = {}
    /\ otherFailed = FALSE

(* ------------------------- receive_and_publish ------------------------ *)
\* Lines 88-91: the except clause prints the error and returns to main.
Except(step) ==
    /\ failed' = step
    /\ returned' = returned + 1
    /\ pc' = "sleep"

\* Line 109 and line 59: main calls receive_and_publish, which creates the
\* device client before it enters the try block.
NewSungrowOk ==
    /\ pc = "receive_and_publish"
    /\ cycles < MaxIter
    /\ cycles' = cycles + 1
    /\ data' = <<>>
    /\ stamp' = 0
    /\ payload' = <<>>
    /\ payload_str' = <<>>
    /\ published' = <<>>
    /\ failed' = "none"
    /\ steps' = <<"SungrowWebsocket">>
    /\ pc' = "get_data"
    /\ UNCHANGED <<sensorId, open_conns, returned, sleeps, notifies, publishCalls,
                   gdFailAt, otherFailed>>

\* Line 59 raises: no handler encloses it, so the exception leaves
\* receive_and_publish and main.
NewSungrowFail ==
    /\ pc = "receive_and_publish"
    /\ cycles < MaxIter
    /\ cycles' = cycles + 1
    /\ data' = <<>>
    /\ stamp' = 0
    /\ payload' = <<>>
    /\ payload_str' = <<>>
    /\ published' = <<>>
    /\ failed' = "SungrowWebsocket"
    /\ steps' = <<"SungrowWebsocket">>
    /\ otherFailed' = TRUE
    /\ pc' = "raised"
    /\ UNCHANGED <<sensorId, open_conns, returned, sleeps, notifies, publishCalls, gdFailAt>>

\* Line 61.
GetDataOk ==
    /\ pc = "get_data"
    /\ \E d \in ReadingLists : data' = d
    /\ steps' = Append(steps, "get_data")
    /\ pc' = "mqtt_client"
    /\ UNCHANGED <<sensorId, stamp, payload, payload_str, published, failed, open_conns,
                   histVars>>

\* A handler around get_data alone that swallows the error and goes on.
GetDataFail_Swallowed ==
    /\ pc = "get_data"
    /\ steps' = Append(steps, "get_data")
    /\ gdFailAt' = gdFailAt \cup {cycles}
    /\ failed' = "get_data"
    /\ pc' = "mqtt_client"
    /\ UNCHANGED <<sensorId, data, stamp, payload, payload_str, published, open_conns,
                   cycles, returned, sleeps, notifies, publishCalls, otherFailed>>

GetDataFail ==
    /\ pc = "get_data"
    /\ steps' = Append(steps, "get_data")
    /\ gdFailAt' = gdFailAt \cup {cycles}
    /\ Except("get_data")
    /\ UNCHANGED <<sensorId, data, stamp, payload, payload_str, published, open_conns,
                   cycles, sleeps, notifies, publishCalls, otherFailed>>

\* A client that is never connected before the payload is built.
MqttClientOk_NoConnect ==
    /\ pc = "mqtt_client"
    /\ steps' = Append(steps, "mqtt_client")
    /\ pc' = "build"
    /\ UNCHANGED <<sensorId, data, stamp, payload, payload_str, published, failed,
                   open_conns, histVars>>

\* Line 63.
MqttClientOk ==
    /\ pc = "mqtt_client"
    /\ steps' = Append(steps, "mqtt_client")
    /\ pc' = "connect"
    /\ UNCHANGED <<sensorId, data, stamp, payload, payload_str, published, failed,
                   open_conns, histVars>>

MqttClientFail ==
    /\ pc = "mqtt_client"
    /\ steps' = Append(steps, "mqtt_client")
    /\ otherFailed' = TRUE
    /\ Except("mqtt_client")
    /\ UNCHANGED <<sensorId, data, stamp, payload, payload_str, published, open_conns,
                   cycles, sleeps, notifies, publishCalls, gdFailAt>>

\* Line 64.
ConnectOk ==
    /\ pc = "connect"
    /\ steps' = Append(steps, "connect")
    /\ open_conns' = open_conns + 1
    /\ pc' = "build"
    /\ UNCHANGED <<sensorId, data, stamp, payload, payload_str, published, failed,
                   histVars>>

\* A connect that is tried again when it raises.
ConnectFail_Retry ==
    /\ pc = "connect"
    /\ Len(steps) < 5
    /\ steps' = Append(steps, "connect")
    /\ otherFailed' = TRUE
    /\ failed' = "connect"
    /\ pc' = "connect"
    /\ UNCHANGED <<sensorId, data, stamp, payload, payload_str, published, open_conns,
                   cycles, returned, sleeps, notifies, publishCalls, gdFailAt>>

ConnectFail ==
    /\ pc = "connect"
    /\ steps' = Append(steps, "connect")
    /\ otherFailed' = TRUE
    /\ Except("connect")
    /\ UNCHANGED <<sensorId, data, stamp, payload, payload_str, published, open_conns,
                   cycles, sleeps, notifies, publishCalls, gdFailAt>>

\* Lines 67-75.
Build ==
    /\ pc = "build"
    /\ \E now \in Times :
         /\ stamp' = now
         /\ payload' = BuildPayload(data, sensorId, now)
    /\ steps' = Append(steps, "build")
    /\ pc' = "serialize"
    /\ UNCHANGED <<sensorId, data, payload_str, published, failed, open_conns, histVars>>

\* Lines 78-82.
SerializeOk ==
    /\ pc = "serialize"
    /\ ~SerializeRaises(payload)
    /\ payload_str' = Serialize(payload)
    /\ steps' = Append(steps, "serialize")
    /\ pc' = "publish"
    /\ UNCHANGED <<sensorId, data, stamp, payload, published, failed, open_conns,
                   histVars>>

\* Lines 78-82 raise AttributeError on a value that is neither int nor str.
SerializeFail ==
    /\ pc = "serialize"
    /\ SerializeRaises(payload)
    /\ steps' = Append(steps, "serialize")
    /\ Except("serialize")
    /\ UNCHANGED <<sensorId, data, stamp, payload, payload_str, published, open_conns,
                   cycles, sleeps, notifies, publishCalls, gdFailAt, otherFailed>>

\* Line 84.
PublishOk ==
    /\ pc = "publish"
    /\ published' = Append(published, payload_str)
    /\ publishCalls' = publishCalls + 1
    /\ steps' = Append(steps, "publish")
    /\ pc' = "disconnect"
    /\ UNCHANGED <<sensorId, data, stamp, payload, payload_str, failed, open_conns,
                   cycles, returned, sleeps, notifies, gdFailAt, otherFailed>>

PublishFail ==
    /\ pc = "publish"
    /\ publishCalls' = publishCalls + 1
    /\ steps' = Append(steps, "publish")
    /\ otherFailed' = TRUE
    /\ Except("publish")
    /\ UNCHANGED <<sensorId, data, stamp, payload, payload_str, published, open_conns,
                   cycles, sleeps, notifies, gdFailAt>>

\* A loop that skips the sleep and the signal after a cycle that succeeded.
DisconnectOk_NoSleep ==
    /\ pc = "disconnect"
    /\ open_conns' = open_conns - 1
    /\ steps' = Append(steps, "disconnect")
    /\ returned' = returned + 1
    /\ pc' = "receive_and_publish"
    /\ UNCHANGED <<sensorId, data, stamp, payload, payload_str, published, failed,
                   cycles, sleeps, notifies, publishCalls, gdFailAt, otherFailed>>

\* Line 86, then the function returns.
DisconnectOk ==
    /\ pc = "disconnect"
    /\ open_conns' = open_conns - 1
    /\ steps' = Append(steps, "disconnect")
    /\ returned' = returned + 1
    /\ pc' = "sleep"
    /\ UNCHANGED <<sensorId, data, stamp, payload, payload_str, published, failed,
                   cycles, sleeps, notifies, publishCalls, gdFailAt, otherFailed>>

\* Line 86 raises: whether the connection was closed is up to the client.
DisconnectFail ==
    /\ pc = "disconnect"
    /\ \E closed \in BOOLEAN : open_conns' = IF closed THEN open_conns - 1 ELSE open_conns
    /\ steps' = Append(steps, "disconnect")
    /\ otherFailed' = TRUE
    /\ Except("disconnect")
    /\ UNCHANGED <<sensorId, data, stamp, payload, payload_str, published,
                   cycles, sleeps, notifies, publishCalls, gdFailAt>>

(* -------------------------------- main -------------------------------- *)
\* Line 110.
Sleep ==
    /\ pc = "sleep"
    /\ sleeps' = sleeps + 1
    /\ pc' = "notify"
    /\ UNCHANGED <<sensorId, cycleVars, open_conns, cycles, returned, notifies,
                   publishCalls, gdFailAt, otherFailed>>

\* A notifier that runs beside the loop and signals at any time.
Notify_Background ==
    /\ notifies < MaxIter
    /\ notifies' = notifies + 1
    /\ pc' = IF pc = "notify" THEN "receive_and_publish" ELSE pc
    /\ UNCHANGED <<sensorId, cycleVars, open_conns, cycles, returned, sleeps,
                   publishCalls, gdFailAt, otherFailed>>

\* A loop that signals only after a cycle in which nothing raised.
Notify_OnlyOnSuccess ==
    /\ pc = "notify"
    /\ notifies' = IF failed = "none" THEN notifies + 1 ELSE notifies
    /\ pc' = "receive_and_publish"
    /\ UNCHANGED <<sensorId, cycleVars, open_conns, cycles, returned, sleeps,
                   publishCalls, gdFailAt, otherFailed>>

\* Line 113, then the loop goes back to line 109.
Notify ==
    /\ pc = "notify"
    /\ notifies' = notifies + 1
    /\ pc' = "receive_and_publish"
    /\ UNCHANGED <<sensorId, cycleVars, open_conns, cycles, returned, sleeps,
                   publishCalls, gdFailAt, otherFailed>>

Next ==
    \/ NewSungrowOk \/ NewSungrowFail
    \/ GetDataOk \/ GetDataFail
    \/ MqttClientOk \/ MqttClientFail
    \/ ConnectOk \/ ConnectFail
    \/ Build
    \/ SerializeOk \/ SerializeFail
    \/ PublishOk \/ PublishFail
    \/ DisconnectOk \/ DisconnectFail
    \/ Sleep
    \/ Notify

Spec == Init /\ [][Next]_vars

\* Every call returns or raises, and the interpreter keeps running main.
FairSpec == Spec /\ WF_vars(Next)

(* ----------------- labels and values over an alphabet ----------------- *)
MaxLabelLen == 3      \* characters of a probed label
MaxValueLen == 3      \* characters of a probed str value

LabelAlphabet == {"a", "B", " ", "\t", "(", ")", "_"}
AlphaLabels == UNION {[1..k -> LabelAlphabet] : k \in 0..MaxLabelLen}

ValueAlphabet == {"1", "5", ".", "-", " ", "a"}
AlphaValues == UNION {[1..k -> ValueAlphabet] : k \in 0..MaxValueLen}
ExampleValues == {<<>>, <<"-", "5">>, <<"1", ".", "2", ".", "3">>, <<" ", "1", "2", " ">>,
                  <<"1", "2">>, <<"1", "2", ".">>, <<".", "5">>}

\* get_data results with one reading: any label with a fixed value, or a
\* fixed label with any str value.
ProbeLists ==
    {<<Reading(V_Running, l)>> : l \in AlphaLabels}
    \cup {<<Reading(StrV(s), L_Status)>> : s \in AlphaValues \cup ExampleValues}

\* Line 61, for the polls of ProbeLists.
GetDataProbe ==
    /\ pc = "get_data"
    /\ \E d \in ProbeLists : data' = d
    /\ steps' = Append(steps, "get_data")
    /\ pc' = "mqtt_client"
    /\ UNCHANGED <<sensorId, stamp, payload, payload_str, published, failed, open_conns,
                   histVars>>

ProbeNext ==
    \/ NewSungrowOk \/ NewSungrowFail
    \/ GetDataProbe \/ GetDataFail
    \/ MqttClientOk \/ MqttClientFail
    \/ ConnectOk \/ ConnectFail
    \/ Build
    \/ SerializeOk
    \/ PublishOk \/ PublishFail
    \/ DisconnectOk \/ DisconnectFail
    \/ Sleep
    \/ Notify

\* The program polling a device whose readings are those of ProbeLists.
ProbeSpec == Init /\ [][ProbeNext]_vars

TypeOK ==
    /\ sensorId \in SensorIds
    /\ pc \in {"receive_and_publish", "get_data", "mqtt_client", "connect", "build",
               "serialize", "publish", "disconnect", "sleep", "notify", "raised"}
    /\ data \in ReadingLists
    /\ stamp \in Times \cup {0}
    /\ cycles \in 0..MaxIter
    /\ notifies \in 0..MaxIter
    /\ open_conns \in 0..MaxIter

(* ------------------------------- claims ------------------------------- *)
Has(seq, x) == \E i \in 1..Len(seq) : seq[i] = x

\* The steps that are calls of a collaborator.
CollaboratorSteps == {"SungrowWebsocket", "get_data", "mqtt_client", "connect",
                      "publish", "disconnect"}

\* The program is inside receive_and_publish.
InCycle == pc \in {"get_data", "mqtt_client", "connect", "build", "serialize",
                   "publish", "disconnect"}

\* C1: a failure at any step of a cycle, creating the device client included,
\* never leaves receive_and_publish: main is never unwound by an exception.
C1_NothingPropagates == pc # "raised"

\* C2: when get_data raised in a cycle, receive_and_publish has returned to
\* main (nothing propagated) and no publish call was made in that cycle.
C2_SourceFailureNoPublish ==
    failed = "get_data" =>
        /\ pc \in {"sleep", "notify", "receive_and_publish"}
        /\ returned = cycles
        /\ ~Has(steps, "publish")
        /\ published = <<>>

C2_Witness ==
    /\ failed = "get_data"
    /\ pc = "sleep"
    /\ cycles = 2
    /\ publishCalls = 1

\* C3: after N complete iterations in which get_data raised in exactly one
\* iteration and no other collaborator call raised, there have been exactly N
\* liveness signals and exactly N-1 publish calls.
C3_SchedulerScenario ==
    (/\ pc = "receive_and_publish"
     /\ cycles >= 1
     /\ returned = cycles
     /\ Cardinality(gdFailAt) = 1
     /\ ~otherFailed)
    => (notifies = cycles /\ publishCalls = cycles - 1)

\* C4: when every call returns or raises, every started cycle is eventually
\* followed by a liveness signal, whatever step of the cycle raised.
C4_EveryCycleSignalled == \A k \in 1..MaxIter : (cycles = k) ~> (notifies >= k)

\* C5 as stated: a liveness signal can be emitted while a get_data, connect or
\* publish call of the current cycle has not returned.
C5_NotBlockedByPolling == pc \in PollingCalls => ENABLED Notify

\* C5 as amended: no liveness signal is emitted while a get_data, connect or
\* publish call of the current cycle has not returned; the single thread of
\* main signals only between cycles.
C5_BlockedByPolling == [][(pc \in PollingCalls) => (notifies' = notifies)]_vars

C5_Witness == pc = "publish" /\ notifies = 1 /\ cycles = 2

DistinctSanitized(items) ==
    \A i, j \in 1..Len(items) :
        i # j => Sanitize(items[i].desc) # Sanitize(items[j].desc)

\* C7: when the labels of the readings sanitize to pairwise distinct names,
\* the payload built in the cycle has exactly len(R) + 2 fields, sensorID is
\* the configured identity and timecollected is the timestamp of the cycle.
C7_FieldCount ==
    (Has(steps, "build") /\ DistinctSanitized(data)) =>
        /\ Len(payload) = Len(data) + 2
        /\ DictHas(payload, K_sensorID)
        /\ DictGet(payload, K_sensorID) = StrV(sensorId)
        /\ DictHas(payload, K_timecollected)
        /\ DictGet(payload, K_timecollected) = IntV(stamp)

\* C8: the field names of a published record are pairwise distinct, and when
\* two readings have labels that sanitize to the same name, the one field of
\* that name carries the value of the later reading.
C8_UniqueFieldNames ==
    published # <<>> =>
        /\ \A i, j \in 1..Len(payload) :
              i # j => FieldNames(payload)[i] # FieldNames(payload)[j]
        /\ \A i, j \in 1..Len(data) :
              (i < j /\ Sanitize(data[i].desc) = Sanitize(data[j].desc)
                     /\ \A k \in (j + 1)..Len(data) :
                           Sanitize(data[k].desc) # Sanitize(data[j].desc))
              => \A m \in 1..Len(payload) :
                    FieldNames(payload)[m] = Sanitize(data[j].desc)
                    => payload[m].value =
                          (IF data[j].value = Sentinel THEN IntV(0) ELSE data[j].value)

\* C9: with the readings p1 (float 1500.0, "Active Power (W)") and p2 ("--",
\* "Status"), identity "node1", timestamp 1700000000 and no collaborator call
\* raising, the cycle publishes exactly the expected string.
C9_EndToEnd ==
    (/\ sensorId = Id_node1
     /\ data = <<Reading(V_1500f, L_ActivePower), Reading(Sentinel, L_Status)>>
     /\ stamp = 1700000000
     /\ pc = "sleep"
     /\ failed \notin CollaboratorSteps)
    => /\ Len(published) = 1
       /\ Str(published[1]) =
            "{\"sensorID\": \"node1\", \"timecollected\": 1700000000, \"Active_PowerW\": 1500.0, \"Status\": 0}"

\* C10: a cycle whose one reading has the value "123.4" (str) or 123.4 (float)
\* publishes its record when no collaborator call raises, and in both cases
\* the value is written as the unquoted numeral 123.4.
C10_NumericStringLikeFloat ==
    \A v \in {V_1234s, V_1234f} :
        (/\ data = <<Reading(v, L_Status)>>
         /\ pc = "sleep"
         /\ failed \notin CollaboratorSteps)
        => /\ Len(published) = 1
           /\ Str(published[1]) =
                "{\"sensorID\": \"" \o Str(sensorId) \o "\", \"timecollected\": "
                \o Str(IntToChars(stamp)) \o ", \"Status\": 123.4}"

\* s has t as a contiguous part.
Contains(s, t) == \E k \in 0..(Len(s) - Len(t)) : SubSeq(s, k + 1, k + Len(t)) = t

\* No later reading of the poll has the same raw label.
LastWriter(items, i) == \A j \in (i + 1)..Len(items) : items[j].desc # items[i].desc

\* C11: a reading whose value is the sentinel "--" is in the payload as the
\* integer 0 and in the published record as an unquoted 0, the sentinel string
\* is in neither, and every other value is in the payload unchanged.
C11_SentinelBecomesZero ==
    Has(steps, "build") =>
        /\ \A m \in 1..Len(payload) : payload[m].value # Sentinel
        /\ \A i \in 1..Len(data) :
              LastWriter(data, i) =>
                  DictGet(payload, data[i].desc) =
                      (IF data[i].value = StrV(<<"-", "-">>) THEN IntV(0) ELSE data[i].value)
        /\ \A r \in 1..Len(published) :
              /\ ~Contains(published[r], <<"\"", "-", "-", "\"">>)
              /\ \A i \in 1..Len(data) :
                    (LastWriter(data, i) /\ data[i].value = StrV(<<"-", "-">>)) =>
                        \E c \in {",", "}"} :
                            Contains(published[r],
                                     <<"\"">> \o Sanitize(data[i].desc)
                                     \o <<"\"", ":", " ", "0", c>>)

C11_Witness ==
    /\ Len(published) = 1
    /\ data = <<Reading(Sentinel, L_Status), Reading(V_Running, L_A_sp_B)>>

\* C12: sanitizing a field name that the serializer has written (a sanitized
\* label) gives the same name again, for every label over LabelAlphabet.
C12_SanitizeIdempotent ==
    Has(steps, "serialize") =>
        \A i \in 1..Len(payload) :
            Sanitize(FieldNames(payload)[i]) = FieldNames(payload)[i]

C12_Witness ==
    /\ Len(published) = 1
    /\ data = <<Reading(V_Running, <<" ", "(", "a">>)>>
    /\ FieldNames(payload)[3] = <<"_", "a">>

\* The field name as C16 describes it: parentheses removed, then whitespace
\* trimmed at both ends, then each remaining space replaced by an underscore.
TrimmedName(label) ==
    Replace(Strip(Replace(Replace(label, "(", <<>>), ")", <<>>)), " ", <<"_">>)

\* C16: the field name written for a reading is its label with every '(' and
\* ')' removed, leading and trailing whitespace removed and each interior
\* space replaced by an underscore.
C16_FieldNameTrimmed ==
    (Len(published) = 1 /\ Len(data) = 1 /\ Len(payload) = 3) =>
        /\ FieldNames(payload)[3] = TrimmedName(data[1].desc)
        /\ Contains(published[1],
                    <<",", " ", "\"">> \o TrimmedName(data[1].desc) \o <<"\"", ":", " ">>)

NumericLooking(s) ==
    /\ Cardinality({i \in 1..Len(s) : s[i] = "."}) <= 1
    /\ \A i \in 1..Len(s) : s[i] \in Digits \cup {"."}
    /\ \E i \in 1..Len(s) : s[i] \in Digits

\* C17: a str value that reaches the serializer is written unquoted exactly
\* when, with at most one decimal point removed, it is all digits; otherwise
\* it is written between double quotes, trimmed of surrounding whitespace.
C17_QuotingRule ==
    (/\ Len(published) = 1
     /\ Len(data) = 1
     /\ data[1].desc = L_Status
     /\ data[1].value.t = "str"
     /\ data[1].value # Sentinel)
    => published[1] =
          <<"{", "\"">> \o K_sensorID \o <<"\"", ":", " ", "\"">> \o sensorId
          \o <<"\"", ",", " ", "\"">> \o K_timecollected \o <<"\"", ":", " ">>
          \o IntToChars(stamp) \o <<",", " ", "\"">> \o L_Status \o <<"\"", ":", " ">>
          \o (IF NumericLooking(data[1].value.s)
              THEN data[1].value.s
              ELSE <<"\"">> \o Strip(data[1].value.s) \o <<"\"">>)
          \o <<"}">>

C17_Witness ==
    /\ Len(published) = 1
    /\ data = <<Reading(StrV(<<"1", ".", "2", ".", "3">>), L_Status)>>
    /\ Contains(published[1], <<"\"", "1", ".", "2", ".", "3", "\"", "}">>)

\* The steps of seq that are among names, in order.
RECURSIVE Only(_, _)
Only(seq, names) ==
    IF seq = <<>> THEN <<>>
    ELSE (IF Head(seq) \in names THEN <<Head(seq)>> ELSE <<>>) \o Only(Tail(seq), names)

\* C13 as stated: in a cycle where nothing raised, the payload is built (which
\* takes the timestamp) and serialized before the connection is opened.
C13_ConnectAfterSerialize ==
    (pc = "sleep" /\ failed = "none") =>
        Only(steps, {"get_data", "build", "serialize", "connect", "publish", "disconnect"})
            = <<"get_data", "build", "serialize", "connect", "publish", "disconnect">>

\* C13 as amended: in a cycle where nothing raised the steps are, in order,
\* get_data, creation of the MQTT client, connect, capture of the timestamp
\* with the payload build, serialization, publish, disconnect: the connection
\* is opened before the payload is built and serialized.
C13_ConnectBeforeBuild ==
    (pc = "sleep" /\ failed = "none") =>
        /\ steps = <<"SungrowWebsocket", "get_data", "mqtt_client", "connect", "build",
                     "serialize", "publish", "disconnect">>
        /\ stamp \in Times
        /\ payload = BuildPayload(data, sensorId, stamp)
        /\ published = <<Serialize(payload)>>

C13_Witness == pc = "sleep" /\ failed = "none" /\ Len(data) = 2 /\ cycles = 2

\* How many times x is in seq.
Count(seq, x) == Cardinality({i \in 1..Len(seq) : seq[i] = x})

\* C14: in one cycle get_data, connect and publish are each called at most
\* once, and the step that raised is the last step of its cycle: nothing is
\* retried or performed after it until the next cycle starts.
C14_NoRetry ==
    /\ \A s \in {"get_data", "connect", "publish"} : Count(steps, s) <= 1
    /\ failed # "none" => (steps # <<>> /\ steps[Len(steps)] = failed)

C14_Witness ==
    /\ failed = "connect"
    /\ pc = "receive_and_publish"
    /\ steps = <<"SungrowWebsocket", "get_data", "mqtt_client", "connect">>

\* C15: a call of receive_and_publish starts only from the loop of main, when
\* every earlier call has returned and exactly one sleep (and one liveness
\* signal) has followed each of them: none before the first cycle, and while
\* a cycle runs no other cycle has started.
C15_CyclesAlternate ==
    /\ [](InCycle => returned = cycles - 1)
    /\ [][cycles' # cycles =>
            /\ pc = "receive_and_publish"
            /\ cycles' = cycles + 1
            /\ returned = cycles
            /\ sleeps = cycles
            /\ notifies = cycles]_vars

C15_Witness == pc = "get_data" /\ cycles = 2 /\ sleeps = 1 /\ failed = "none"

\* C18: no connection is open once receive_and_publish has returned: every
\* connection opened in a cycle has been disconnected in that cycle.
C18_ConnectionsClosed ==
    pc \in {"sleep", "notify", "receive_and_publish"} => open_conns = 0

\* The first characters of a published record: the two fixed fields with the
\* configured identity and the timestamp of the cycle.
FixedPrefix ==
    <<"{", "\"">> \o K_sensorID \o <<"\"", ":", " ", "\"">> \o sensorId
    \o <<"\"", ",", " ", "\"">> \o K_timecollected \o <<"\"", ":", " ">>
    \o IntToChars(stamp)

\* C19: every published record has sensorID equal to SENSOR_ID and
\* timecollected equal to the timestamp of its cycle, whatever the labels of
\* the readings are.
C19_FixedFieldsKept ==
    \A r \in 1..Len(published) :
        /\ Len(published[r]) > Len(FixedPrefix)
        /\ SubSeq(published[r], 1, Len(FixedPrefix)) = FixedPrefix
        /\ published[r][Len(FixedPrefix) + 1] \in {",", "}"}
        /\ Count(FieldNames(payload), K_sensorID) = 1
        /\ Count(FieldNames(payload), K_timecollected) = 1
====
